---- MODULE Spec2Model ----
(***************************************************************************)
(* A model of rust_gp: genetic programming over index-linked expression    *)
(* graphs (Gene / Chromosome), the operator library, and the Population    *)
(* with its generational loop.                                             *)
(*                                                                         *)
(* Positions are 0-based as in the source; a TLA+ sequence is 1-based, so  *)
(* the gene at position i is genes[i + 1].                                 *)
(***************************************************************************)
EXTENDS Integers, Sequences, FiniteSets, TLC

(***************************************************************************)
(* Bounds of the model.                                                    *)
(***************************************************************************)
\* f64::MAX, scaled down: the largest finite value of the model's floats.
FMAX == 10
\* Longest chromosome built in the chromosome-level specification.
MaxLen == 3
\* num_genes of the driver's runs.
NumGenes == 2
\* Largest pop_size handed to the driver.
MaxPop == 3
\* gen, the generation count of a run.
Gens == 2

(***************************************************************************)
(* f64.  Finite values are the integers -FMAX..FMAX (a float format with a *)
(* coarse grid: results are rounded toward zero, and overflow to an        *)
(* infinity as IEEE 754 does).  The three special values are coded as      *)
(* integers outside the finite range, so that the order on codes is the    *)
(* order on floats for everything but NaN.                                 *)
(***************************************************************************)
PINF == FMAX + 1
NINF == 0 - (FMAX + 1)
NAN == FMAX + 2
\* Not a float: the marker of a panic raised while a value was computed.
PANICV == FMAX + 3

F64 == (NINF..PINF) \cup {NAN}

is_nan(x) == x = NAN

is_infinite(x) == x = PINF \/ x = NINF

is_finite(x) == x >= 0 - FMAX /\ x <= FMAX

\* IEEE comparison: every comparison with NaN is false.
FLt(x, y) == ~is_nan(x) /\ ~is_nan(y) /\ x < y

FGe(x, y) == ~is_nan(x) /\ ~is_nan(y) /\ x >= y

\* The exact result z, as the format stores it.
Round(z) == IF z > FMAX THEN PINF ELSE IF z < 0 - FMAX THEN NINF ELSE z

Sign(x) == IF x > 0 THEN 1 ELSE IF x < 0 THEN 0 - 1 ELSE 0

Abs(x) == IF x < 0 THEN 0 - x ELSE x

FNeg(x) == IF is_nan(x) THEN NAN ELSE 0 - x

FAdd(x, y) ==
    IF is_nan(x) \/ is_nan(y) THEN NAN
    ELSE IF is_infinite(x) THEN (IF is_infinite(y) /\ y # x THEN NAN ELSE x)
    ELSE IF is_infinite(y) THEN y
    ELSE Round(x + y)

FSub(x, y) == FAdd(x, FNeg(y))

FMul(x, y) ==
    IF is_nan(x) \/ is_nan(y) THEN NAN
    ELSE IF is_infinite(x) \/ is_infinite(y)
         THEN (IF x = 0 \/ y = 0 THEN NAN
               ELSE IF Sign(x) * Sign(y) > 0 THEN PINF ELSE NINF)
    ELSE Round(x * y)

\* x / y of the hardware, y = 0 included.
FDiv(x, y) ==
    IF is_nan(x) \/ is_nan(y) THEN NAN
    ELSE IF is_infinite(x)
         THEN (IF is_infinite(y) THEN NAN
               ELSE IF Sign(x) * (IF y < 0 THEN 0 - 1 ELSE 1) > 0 THEN PINF ELSE NINF)
    ELSE IF is_infinite(y) THEN 0
    ELSE IF y = 0
         THEN (IF x = 0 THEN NAN ELSE IF x > 0 THEN PINF ELSE NINF)
    ELSE Sign(x) * Sign(y) * (Abs(x) \div Abs(y))

RECURSIVE FloorLog2(_)
FloorLog2(n) == IF n <= 1 THEN 0 ELSE 1 + FloorLog2(n \div 2)

FLog2(x) ==
    IF is_nan(x) THEN NAN
    ELSE IF x < 0 THEN NAN
    ELSE IF x = 0 THEN NINF
    ELSE IF x = PINF THEN PINF
    ELSE FloorLog2(x)

(***************************************************************************)
(* functions.rs: the operator library.  Each function of the source        *)
(* returns (value, name); the operator here is the value, get_operator the *)
(* name.                                                                   *)
(***************************************************************************)
add(x, y) == FAdd(x, y)

subtract(x, y) == FSub(x, y)

\* divide without the test of y: the hardware's x / y.
divide_unchecked(x, y) == FDiv(x, y)

divide(x, y) ==
    IF y = 0 THEN (IF FGe(x, 0) THEN FMAX ELSE FNeg(FMAX)) ELSE FDiv(x, y)

multiply(x, y) == FMul(x, y)

\* f64::max and f64::min return the other argument when one is NaN.
max(x, y) == IF is_nan(x) THEN y ELSE IF is_nan(y) THEN x ELSE IF x >= y THEN x ELSE y

min(x, y) == IF is_nan(x) THEN y ELSE IF is_nan(y) THEN x ELSE IF x <= y THEN x ELSE y

square(x, y) == FMul(x, x)

log2(x, y) == FLog2(x)

nothing(x, y) == 0

UnaryFunctions == {"square", "log2"}

BinaryFunctions == {"add", "subtract", "divide", "multiply", "max", "min"}

get_unary_function == UnaryFunctions

get_binary_function == BinaryFunctions

\* (self.ops)(x, y).0
Call(ops, x, y) ==
    CASE ops = "add" -> add(x, y)
      [] ops = "subtract" -> subtract(x, y)
      [] ops = "divide" -> divide(x, y)
      [] ops = "multiply" -> multiply(x, y)
      [] ops = "max" -> max(x, y)
      [] ops = "min" -> min(x, y)
      [] ops = "square" -> square(x, y)
      [] ops = "log2" -> log2(x, y)
      [] OTHER -> nothing(x, y)

(***************************************************************************)
(* chromosome.rs: Gene.                                                    *)
(***************************************************************************)
\* GeneType with its payload (arg: the constant's value or the variable's
\* column; 0 for Unary and Binary, which carry none), the two back
\* references and the operator.
Gene(tag, arg, left, right, f) ==
    [type_of_gene |-> tag, arg |-> arg, left_ptr |-> left, right_ptr |-> right, ops |-> f]

\* rand::random::<f64>() draws from [0, 1): on the model's grid that is 0.
RandomConsts == {0}

new_constant == {Gene("Constant", k, 0, 0, "nothing") : k \in RandomConsts}

new_variable(variable_number) == Gene("Variable", variable_number, 0, 0, "nothing")

new_unary2(left, func) == Gene("Unary", 0, left, 0, func)

new_binary2(curr_loc, curr_loc2, func) == Gene("Binary", 0, curr_loc, curr_loc2, func)

\* gen_range(0..num_variables)
new_random_variable(num_variables) ==
    {Gene("Variable", i, 0, 0, "nothing") : i \in 0..(num_variables - 1)}

\* new_unary with the range closed at curr_loc (gen_range(0..=curr_loc)).
new_unary_inclusive(curr_loc) ==
    {Gene("Unary", 0, l, 0, f) : l \in 0..curr_loc, f \in get_unary_function}

\* left_ptr: gen_range(0..curr_loc)
new_unary(curr_loc) ==
    {Gene("Unary", 0, l, 0, f) : l \in 0..(curr_loc - 1), f \in get_unary_function}

\* left_ptr, right_ptr: gen_range(0..curr_loc), drawn independently
new_binary(curr_loc) ==
    {Gene("Binary", 0, l, r, f) :
        l \in 0..(curr_loc - 1), r \in 0..(curr_loc - 1), f \in get_binary_function}

\* Every gene new_random_gene can return: random() || first_or_second picks a
\* terminal, otherwise a second random() picks Binary or Unary.
new_random_gene(curr_loc, num_variables, first_or_second_in_chromosome) ==
    (new_constant \cup new_random_variable(num_variables))
    \cup (IF first_or_second_in_chromosome
          THEN {}
          ELSE new_binary(curr_loc) \cup new_unary(curr_loc))

IsTerminal(gene) == gene.type_of_gene \in {"Constant", "Variable"}

(***************************************************************************)
(* chromosome.rs: Chromosome.                                              *)
(***************************************************************************)
Chromosome(genes) == [genes |-> genes, fitness_value |-> FMAX, accessed |-> FALSE]

\* Chromosome::new(): no genes, the worst fitness.
Chromosome_new == Chromosome(<< >>)

new_from_genes_array(genes_array) == Chromosome(genes_array)

\* The chromosomes the unit tests build by hand.
TestChromosomes ==
    {new_from_genes_array(<<Gene("Constant", 0, 0, 0, "nothing")>>),
     new_from_genes_array(<<new_variable(2)>>)}
    \cup {new_from_genes_array(<<new_variable(1), new_unary2(0, func)>>) :
             func \in UnaryFunctions}
    \cup {new_from_genes_array(<<new_variable(1), new_variable(2), new_binary2(0, 1, func)>>) :
             func \in BinaryFunctions}

\* The gene sequences the loop of new_x can push, position by position.
RECURSIVE NewXGenes(_, _)
NewXGenes(num_genes, num_variables) ==
    IF num_genes = 0
    THEN {<< >>}
    ELSE LET i == num_genes - 1
         IN  {Append(prefix, gene) :
                 prefix \in NewXGenes(i, num_variables),
                 gene \in new_random_gene(i, num_variables, i = 1 \/ i = 0)}

new_x(num_genes, num_variables) ==
    {Chromosome(genes) : genes \in NewXGenes(num_genes, num_variables)}

\* Gene::operation on the gene at position pos of `genes`, for one data row.
\* An index past the end of a Vec panics; a reference that does not lead
\* back never returns (the stack overflows), which `fuel` detects: a walk
\* over back references is no deeper than the chromosome is long.
RECURSIVE operation(_, _, _, _)
operation(genes, pos, vec, fuel) ==
    IF pos >= Len(genes) \/ fuel = 0
    THEN PANICV
    ELSE LET gene == genes[pos + 1]
         IN  CASE gene.type_of_gene = "Constant" -> gene.arg
               [] gene.type_of_gene = "Variable" ->
                    IF gene.arg >= Len(vec) THEN PANICV ELSE vec[gene.arg + 1]
               [] gene.type_of_gene = "Unary" ->
                    LET l == operation(genes, gene.left_ptr, vec, fuel - 1)
                    IN  IF l = PANICV THEN PANICV ELSE Call(gene.ops, l, 0 - 1)
               [] OTHER ->
                    LET l == operation(genes, gene.left_ptr, vec, fuel - 1)
                        r == operation(genes, gene.right_ptr, vec, fuel - 1)
                    IN  IF l = PANICV \/ r = PANICV THEN PANICV ELSE Call(gene.ops, l, r)

\* evaluate_fitness rooted at the first gene instead of the last.
evaluate_fitness_first(c, vec) ==
    IF Len(c.genes) = 0
    THEN PANICV
    ELSE operation(c.genes, 0, vec, Len(c.genes))

\* self.genes[self.genes.len() - 1].operation(self, vec): with no genes the
\* index underflows and the call panics.
evaluate_fitness(c, vec) ==
    IF Len(c.genes) = 0
    THEN PANICV
    ELSE operation(c.genes, Len(c.genes) - 1, vec, Len(c.genes))

\* total after the rows 1..n: total += (predicted - expected).powi(2)
RECURSIVE SquaredErrors(_, _, _)
SquaredErrors(c, vec, n) ==
    IF n = 0
    THEN 0
    ELSE LET total == SquaredErrors(c, vec, n - 1)
             row == vec[n]
             expected == row[Len(row)]
             predicted == evaluate_fitness(c, row)
             diff == FSub(predicted, expected)
         IN  IF total = PANICV \/ predicted = PANICV
             THEN PANICV
             ELSE FAdd(total, FMul(diff, diff))

\* The fitness evaluate_fitness_mse stores for the averaged total.
Clamp(total) == IF is_infinite(total) THEN FMAX ELSE total

\* evaluate_fitness_mse: [panic, c] with c the chromosome afterwards.
evaluate_fitness_mse(c, vec) ==
    LET sum == SquaredErrors(c, vec, Len(vec))
    IN  IF sum = PANICV
        THEN [panic |-> TRUE, c |-> c]
        ELSE [panic |-> FALSE,
              c |-> [c EXCEPT !.accessed = TRUE,
                              !.fitness_value = Clamp(FDiv(sum, Len(vec)))]]

Min2(a, b) == IF a <= b THEN a ELSE b

\* The genes of both chromosomes after the swaps at positions from..(to - 1).
SwapGenes(g1, g2, from, to) ==
    [a |-> [p \in 1..Len(g1) |-> IF p - 1 >= from /\ p - 1 < to THEN g2[p] ELSE g1[p]],
     b |-> [p \in 1..Len(g2) |-> IF p - 1 >= from /\ p - 1 < to THEN g1[p] ELSE g2[p]]]

\* cross_with with the loop started one position late (cross_loc + 1..len).
cross_with_after_locus(self, parent_2, cross_loc) ==
    LET n1 == Len(self.genes)
        n2 == Len(parent_2.genes)
        s == SwapGenes(self.genes, parent_2.genes, cross_loc + 1, Min2(n1, n2))
    IN  [panic |-> n1 > n2,
         self |-> [self EXCEPT !.genes = s.a],
         parent_2 |-> [parent_2 EXCEPT !.genes = s.b]]

\* self.cross_with(parent_2, cross_loc): the loop swaps position by position
\* up to self.len(), and indexing parent_2 past its end panics with the
\* earlier positions already swapped.
cross_with(self, parent_2, cross_loc) ==
    LET n1 == Len(self.genes)
        n2 == Len(parent_2.genes)
        s == SwapGenes(self.genes, parent_2.genes, cross_loc, Min2(n1, n2))
    IN  [panic |-> n1 > n2,
         self |-> [self EXCEPT !.genes = s.a],
         parent_2 |-> [parent_2 EXCEPT !.genes = s.b]]

\* MutationGenes with the terminal flag set for position 0 alone.
MutationGenes_first_only(mut_loc, num_variables) ==
    new_random_gene(mut_loc, num_variables, mut_loc = 0)

\* The gene mutate writes at mut_loc.
MutationGenes(mut_loc, num_variables) ==
    new_random_gene(mut_loc, num_variables, (mut_loc = 0) \/ (mut_loc = 1))

\* mutate writing one position to the right of the chosen locus (wrapping).
mutate_next_locus(c, mut_loc, gene) ==
    [c EXCEPT !.genes[((mut_loc + 1) % Len(c.genes)) + 1] = gene]

\* self.genes[mut_loc] = gene
mutate(c, mut_loc, gene) == [c EXCEPT !.genes[mut_loc + 1] = gene]

(***************************************************************************)
(* The data sets of the runs: rows of input columns and, last, the target. *)
(***************************************************************************)
Datasets ==
    { << <<4, 0, 4>> >>,
      << <<3, 0, 1>>, <<1, 0, 1>> >>,
      << <<0 - 1, 0, 1>> >> }

\* dataset[0].len() - 2, the variable count the source passes to new_x and mutate.
NumVariables(vec) == Len(vec[1]) - 2

VARIABLES
    c1, c2,          \* two chromosomes under the genetic operators
    op, loc,         \* the last operator applied to them, and its locus
    call,            \* the last call of a library function, with its result
    dataset,         \* the rows handed to the run
    pop_size,        \* the configured population size
    population,      \* Population.population
    new_population,  \* the offspring mate has collected so far
    best,            \* Population.best
    pc,              \* the driver's position
    g,               \* the generation index of the loop
    pending,         \* members whose evaluation task has not completed
    fitness_graph,   \* the (generation, fitness) entries pushed so far
    prev_min,        \* lowest fitness of the generation mate replaced
    tourn            \* the draws and the winner of the last tournament

vars == <<c1, c2, op, loc, call, dataset, pop_size, population, new_population, best,
          pc, g, pending, fitness_graph, prev_min, tourn>>

driverVars == <<pop_size, population, new_population, best, pc, g, pending,
                fitness_graph, prev_min, tourn>>

chromVars == <<c1, c2, op, loc, call>>

NoCall == [ops |-> "nothing", x |-> 0, y |-> 0, result |-> 0]

NoTourn == [c1 |-> 0, c2 |-> 0, f1 |-> 0, f2 |-> 0, winner |-> 0]

DriverIdle ==
    /\ pop_size = 0
    /\ population = << >>
    /\ new_population = << >>
    /\ best = Chromosome_new
    /\ pc = "idle"
    /\ g = 0
    /\ pending = {}
    /\ fitness_graph = << >>
    /\ prev_min = FMAX
    /\ tourn = NoTourn

(***************************************************************************)
(* The genetic operators on a pair of chromosomes.                         *)
(***************************************************************************)
InitChrom ==
    /\ dataset \in {d \in Datasets : Len(d) = 1 /\ d[1][1] = 4}
    /\ \E n1 \in 1..MaxLen, n2 \in 1..MaxLen :
          /\ c1 \in new_x(n1, NumVariables(dataset))
          /\ c2 \in new_x(n2, NumVariables(dataset))
    /\ op = "new_x"
    /\ loc = 0
    /\ call = NoCall
    /\ DriverIdle

\* c1.mutate(num_variables)
Mutate1 ==
    /\ op # "panic"
    /\ \E mut_loc \in 0..(Len(c1.genes) - 1) :
          \E gene \in MutationGenes(mut_loc, NumVariables(dataset)) :
             /\ c1' = mutate(c1, mut_loc, gene)
             /\ loc' = mut_loc
    /\ op' = "mutate"
    /\ UNCHANGED <<c2, call, dataset, driverVars>>

\* c1.cross_with(&mut c2, None)
CrossWith ==
    /\ op # "panic"
    /\ \E cross_loc \in 0..(Len(c1.genes) - 1) :
          LET r == cross_with(c1, c2, cross_loc)
          IN  /\ c1' = r.self
              /\ c2' = r.parent_2
              /\ loc' = cross_loc
              /\ op' = IF r.panic THEN "panic" ELSE "cross_with"
    /\ UNCHANGED <<call, dataset, driverVars>>

NextChrom == Mutate1 \/ CrossWith

SpecChrom == InitChrom /\ [][NextChrom]_vars

(***************************************************************************)
(* Fitness evaluation of one chromosome against a data set.                *)
(***************************************************************************)
InitEval ==
    /\ dataset \in Datasets
    /\ \E n1 \in 1..MaxLen : c1 \in new_x(n1, NumVariables(dataset))
    /\ c2 = Chromosome_new
    /\ op = "new_x"
    /\ loc = 0
    /\ call = NoCall
    /\ DriverIdle

\* c1.evaluate_fitness_mse(&dataset)
EvaluateMse1 ==
    /\ op # "panic"
    /\ LET r == evaluate_fitness_mse(c1, dataset)
       IN  /\ c1' = r.c
           /\ op' = IF r.panic THEN "panic" ELSE "evaluate_fitness_mse"
    /\ UNCHANGED <<c2, loc, call, dataset, driverVars>>

NextEval == EvaluateMse1 \/ Mutate1

SpecEval == InitEval /\ [][NextEval]_vars

(***************************************************************************)
(* Evaluation of the randomly built and the hand-built chromosomes.        *)
(***************************************************************************)
InitSemantics ==
    /\ dataset \in Datasets
    /\ \/ \E n1 \in 1..MaxLen : c1 \in new_x(n1, NumVariables(dataset))
       \/ c1 \in TestChromosomes
    /\ c2 = Chromosome_new
    /\ op = "new_x"
    /\ loc = 0
    /\ call = NoCall
    /\ DriverIdle

NextSemantics == EvaluateMse1

SpecSemantics == InitSemantics /\ [][NextSemantics]_vars

(***************************************************************************)
(* Calls of the library functions on arbitrary arguments.                  *)
(***************************************************************************)
InitFunctions ==
    /\ dataset \in {d \in Datasets : Len(d) = 1 /\ d[1][1] = 4}
    /\ c1 = Chromosome_new
    /\ c2 = Chromosome_new
    /\ op = "idle"
    /\ loc = 0
    /\ \E x \in F64, y \in F64 : call = [NoCall EXCEPT !.x = x, !.y = y]
    /\ DriverIdle

\* (ops)(x, y).0 for one of the library's functions, on the arguments held
CallFunction ==
    /\ \E ops \in UnaryFunctions \cup BinaryFunctions :
          call' = [call EXCEPT !.ops = ops, !.result = Call(ops, call.x, call.y)]
    /\ UNCHANGED <<c1, c2, op, loc, dataset, driverVars>>

NextFunctions == CallFunction

SpecFunctions == InitFunctions /\ [][NextFunctions]_vars

(***************************************************************************)
(* population.rs: Population, and the generational loop of gp.rs.          *)
(***************************************************************************)
\* find_best_min with <= for <: a member that ties replaces the cached best.
RECURSIVE FindBestOrEqual(_, _, _)
FindBestOrEqual(members, n, cached) ==
    IF n = 0
    THEN cached
    ELSE LET b == FindBestOrEqual(members, n - 1, cached)
         IN  IF FLt(members[n].fitness_value, b.fitness_value)
                \/ members[n].fitness_value = b.fitness_value
             THEN members[n] ELSE b

find_best_min_or_equal(members, cached) == FindBestOrEqual(members, Len(members), cached)

\* find_best_min over the members 1..n, starting from the cached best: a
\* member replaces it only when strictly lower.
RECURSIVE FindBest(_, _, _)
FindBest(members, n, cached) ==
    IF n = 0
    THEN cached
    ELSE LET b == FindBest(members, n - 1, cached)
         IN  IF FLt(members[n].fitness_value, b.fitness_value) THEN members[n] ELSE b

find_best_min(members, cached) == FindBest(members, Len(members), cached)

\* tournament_selection: the two draws of get_random_chromosome (with
\* replacement), their fitness values and the member returned.
tournament_selection(members) ==
    {[c1 |-> i, c2 |-> j,
      f1 |-> members[i].fitness_value, f2 |-> members[j].fitness_value,
      winner |-> IF FLt(members[i].fitness_value, members[j].fitness_value)
                 THEN i ELSE j] :
        i \in 1..Len(members), j \in 1..Len(members)}

\* The iterations of a loop started at 0: (0..len).step_by(2).
NumPairs_from_zero(len) == (len + 1) \div 2

\* The number of iterations of (1..len).step_by(2).
NumPairs(len) == len \div 2

\* get_new_offspring once both parents are cloned: cross is the crossover
\* locus, or -1 when the crossover draw fails; m1 and m2 are <<locus, gene>>,
\* or << >> when the mutation draw fails.
get_new_offspring(one, two, cross, m1, m2) ==
    LET x == IF cross < 0
             THEN [panic |-> FALSE, self |-> one, parent_2 |-> two]
             ELSE cross_with(one, two, cross)
        o1 == IF m1 = << >> THEN x.self ELSE mutate(x.self, m1[1], m1[2])
        o2 == IF m2 = << >> THEN x.parent_2 ELSE mutate(x.parent_2, m2[1], m2[2])
    IN  <<o1, o2>>

\* The outcomes of one mutation draw on a chromosome of len genes.
MutationDraws(len, num_variables) ==
    {<< >>} \cup
    UNION {{<<mut_loc, gene>> : gene \in MutationGenes(mut_loc, num_variables)} :
              mut_loc \in 0..(len - 1)}

\* mate without the elitism push.
WithoutElite(offspring, cached) == offspring

\* The population mate installs: the offspring, then a clone of the best.
WithElite(offspring, cached) == Append(offspring, cached)

\* The lowest fitness among the members (NaN compares with nothing and is
\* passed over); +infinity when there is none.
RECURSIVE MinFitnessTo(_, _)
MinFitnessTo(members, n) ==
    IF n = 0
    THEN PINF
    ELSE LET m == MinFitnessTo(members, n - 1)
         IN  IF FLt(members[n].fitness_value, m) THEN members[n].fitness_value ELSE m

MinFitness(members) == MinFitnessTo(members, Len(members))

\* An entry numbered from 1: the count of generations completed.
DataToWrite_completed(generation, fitness) ==
    [generation |-> generation + 1, fitness |-> fitness]

\* DataToWrite { generation: g, fitness: best }
DataToWrite(generation, fitness) == [generation |-> generation, fitness |-> fitness]

\* Every task handed the first element.
TaskElement_first(i) == 1

\* The element par_iter_mut (or `for i in &mut population`) hands task i.
TaskElement(i) == i

\* A parallel loop that returns without waiting for its tasks.
NotJoined(tasks) == TRUE

\* par_iter_mut().for_each / thread::scope return once every task has.
Joined(tasks) == tasks = {}

Init ==
    /\ dataset \in Datasets
    /\ pop_size \in 1..MaxPop
    /\ population \in [1..pop_size -> new_x(NumGenes, NumVariables(dataset))]
    /\ best = find_best_min(population, Chromosome_new)
    /\ new_population = << >>
    /\ pc = "evaluate"
    /\ g = 0
    /\ pending = 1..pop_size
    /\ fitness_graph = << >>
    /\ prev_min = MinFitness(population)
    /\ tourn = NoTourn
    /\ c1 = Chromosome_new
    /\ c2 = Chromosome_new
    /\ op = "idle"
    /\ loc = 0
    /\ call = NoCall

\* One evaluation task: population[i].evaluate_fitness_mse(dataset).  A panic
\* in a task ends the run.
EvalTask(i) ==
    /\ pc \in {"evaluate", "mate_evaluate"}
    /\ i \in pending
    /\ LET r == evaluate_fitness_mse(population[i], dataset)
       IN  IF r.panic
           THEN /\ pc' = "panic"
                /\ UNCHANGED <<population, pending>>
           ELSE /\ population' = [population EXCEPT ![TaskElement(i)] = r.c]
                /\ pending' = pending \ {i}
                /\ pc' = pc
    /\ UNCHANGED <<chromVars, dataset, pop_size, new_population, best, g,
                   fitness_graph, prev_min, tourn>>

\* Population::evaluate after the parallel loop: find_best_min.
EvaluateJoin ==
    /\ pc = "evaluate"
    /\ Joined(pending)
    /\ best' = find_best_min(population, best)
    /\ pc' = "mate"
    /\ UNCHANGED <<chromVars, dataset, pop_size, population, new_population, g,
                   pending, fitness_graph, prev_min, tourn>>

\* One iteration of mate's flat_map: a pair from get_new_offspring.
MateOffspring ==
    /\ pc = "mate"
    /\ Len(new_population) < 2 * NumPairs(Len(population))
    /\ \E t1 \in tournament_selection(population),
          t2 \in tournament_selection(population) :
          LET one == population[t1.winner]
              two == population[t2.winner]
              nv == NumVariables(dataset)
          IN  \E cross \in (0 - 1)..(Len(one.genes) - 1),
                 m1 \in MutationDraws(Len(one.genes), nv),
                 m2 \in MutationDraws(Len(two.genes), nv) :
                 /\ new_population' =
                       new_population \o get_new_offspring(one, two, cross, m1, m2)
                 /\ tourn' = t1
    /\ UNCHANGED <<chromVars, dataset, pop_size, population, best, pc, g, pending,
                   fitness_graph, prev_min>>

\* mate after the offspring are collected: push the best, replace the
\* population, and start self.evaluate(dataset).
MateReplace ==
    /\ pc = "mate"
    /\ Len(new_population) = 2 * NumPairs(Len(population))
    /\ population' = WithElite(new_population, best)
    /\ new_population' = << >>
    /\ prev_min' = MinFitness(population)
    /\ pending' = 1..Len(population')
    /\ pc' = "mate_evaluate"
    /\ tourn' = NoTourn
    /\ UNCHANGED <<chromVars, dataset, pop_size, best, g, fitness_graph>>

\* The end of mate (find_best_min, return self.best.fitness_value) and of the
\* loop body of gp: fitness_graph.push(DataToWrite {generation: g, fitness}).
MateFinish ==
    /\ pc = "mate_evaluate"
    /\ Joined(pending)
    /\ best' = find_best_min(population, best)
    /\ fitness_graph' = Append(fitness_graph, DataToWrite(g, best'.fitness_value))
    /\ g' = g + 1
    /\ IF g + 1 < Gens
       THEN pc' = "evaluate" /\ pending' = 1..Len(population)
       ELSE pc' = "report" /\ pending' = pending
    /\ UNCHANGED <<chromVars, dataset, pop_size, population, new_population,
                   prev_min, tourn>>

\* After the loop: assert that every member was accessed, then report.
Report ==
    /\ pc = "report"
    /\ pc' = IF \A i \in 1..Len(population) : population[i].accessed
             THEN "done" ELSE "panic"
    /\ UNCHANGED <<chromVars, dataset, pop_size, population, new_population, best,
                   g, pending, fitness_graph, prev_min, tourn>>

\* The loop of gp.rs over the Population of population.rs.  gp.rs is written
\* against an earlier Population (a Vec whose mate returns the new vector);
\* here each phase of its loop is the operation population.rs gives it: the
\* evaluation of every member is Population::evaluate, which also refreshes
\* the cached best that mate clones as the elite.
Next ==
    \/ \E i \in pending : EvalTask(i)
    \/ EvaluateJoin
    \/ MateOffspring
    \/ MateReplace
    \/ MateFinish
    \/ Report

Spec == Init /\ [][Next]_vars

(***************************************************************************)
(* Properties of the genetic operators (SpecChrom).                        *)
(***************************************************************************)
\* Every reference a gene holds is strictly less than the gene's position.
Acyclic(c) ==
    \A p \in 1..Len(c.genes) :
       LET gene == c.genes[p]
       IN  /\ gene.type_of_gene = "Unary" => gene.left_ptr < p - 1
           /\ gene.type_of_gene = "Binary" =>
                 (gene.left_ptr < p - 1 /\ gene.right_ptr < p - 1)

\* C1: in every chromosome reachable by new_x, mutate and cross_with, a
\* Unary gene at position i has left_ptr < i, and a Binary gene at position
\* i has left_ptr < i and right_ptr < i.
C1_Acyclicity == Acyclic(c1) /\ Acyclic(c2)

\* C1's case: a crossover has exchanged a Binary and a Unary gene at the
\* last position of two three-gene chromosomes.
C1_Witness ==
    /\ op = "cross_with" /\ loc = 2
    /\ Len(c1.genes) = 3 /\ Len(c2.genes) = 3
    /\ c1.genes[3].type_of_gene = "Binary" /\ c1.genes[3].right_ptr = 1
    /\ c2.genes[3].type_of_gene = "Unary" /\ c2.genes[3].left_ptr = 1

TerminalHead(c) ==
    Len(c.genes) >= 2 => (IsTerminal(c.genes[1]) /\ IsTerminal(c.genes[2]))

\* C2: in every chromosome of length >= 2 reachable by new_x, mutate and
\* cross_with, the genes at positions 0 and 1 are Constant or Variable.
C2_TerminalPositions == TerminalHead(c1) /\ TerminalHead(c2)

\* C2's case: mutate has rewritten position 1 of a three-gene chromosome
\* whose last gene is an operator.
C2_Witness ==
    /\ op = "mutate" /\ loc = 1
    /\ Len(c1.genes) = 3
    /\ c1.genes[2].type_of_gene = "Variable"
    /\ ~IsTerminal(c1.genes[3])

\* C8: a.cross_with(b, locus) between equal-length chromosomes leaves every
\* position below the locus of both unchanged, exchanges every position at
\* or above it, and keeps both lengths.
C8_CrossoverFrame ==
    [][(op' = "cross_with" /\ Len(c1.genes) = Len(c2.genes)) =>
         /\ Len(c1'.genes) = Len(c1.genes)
         /\ Len(c2'.genes) = Len(c2.genes)
         /\ \A p \in 1..Len(c1.genes) :
               IF p - 1 < loc'
               THEN c1'.genes[p] = c1.genes[p] /\ c2'.genes[p] = c2.genes[p]
               ELSE c1'.genes[p] = c2.genes[p] /\ c2'.genes[p] = c1.genes[p]]_vars

\* C8's case: a crossover at locus 1 of two three-gene chromosomes that
\* differ both below and above the locus.
C8_Witness ==
    /\ op = "cross_with" /\ loc = 1
    /\ Len(c1.genes) = 3 /\ Len(c2.genes) = 3
    /\ c1.genes[1] # c2.genes[1]
    /\ c1.genes[2] # c2.genes[2]
    /\ c1.genes[3] # c2.genes[3]

\* C9 as claimed: after mutate exactly one gene, the one at the chosen
\* locus, differs from the chromosome before the call.
C9_ExactlyOneGeneDiffers ==
    [][op' = "mutate" =>
         /\ Len(c1'.genes) = Len(c1.genes)
         /\ \A p \in 1..Len(c1.genes) :
               (c1'.genes[p] # c1.genes[p]) <=> (p - 1 = loc')]_vars

\* C9 as amended: after mutate the length and every position other than the
\* chosen locus are unchanged, and the gene at the locus is one
\* new_random_gene can return for that position (it may equal the gene it
\* replaces, so at most one gene differs).
C9_MutateFrame ==
    [][op' = "mutate" =>
         /\ Len(c1'.genes) = Len(c1.genes)
         /\ \A p \in 1..Len(c1.genes) : p - 1 # loc' => c1'.genes[p] = c1.genes[p]
         /\ c1'.genes[loc' + 1] \in
               new_random_gene(loc', NumVariables(dataset), loc' \in {0, 1})
         /\ c2' = c2]_vars

\* C9's case: mutate has written an operator gene at the last locus of a
\* three-gene chromosome.
C9_Witness ==
    /\ op = "mutate" /\ loc = 2
    /\ Len(c1.genes) = 3
    /\ c1.genes[3].type_of_gene = "Binary"

\* C15: cross_with between chromosomes of unequal length is fatal for every
\* locus and either ordering: the call never completes normally, so that no
\* pair swapped over a part of its positions is returned.
C15_UnequalCrossFatal ==
    [][(op' \in {"cross_with", "panic"} /\ Len(c1.genes) # Len(c2.genes)) =>
         op' = "panic"]_vars

\* The positions the walk from position pos visits.
RECURSIVE ReachableFrom(_, _)
ReachableFrom(genes, pos) ==
    LET gene == genes[pos + 1]
    IN  {pos} \cup
        (CASE gene.type_of_gene = "Unary" -> ReachableFrom(genes, gene.left_ptr)
           [] gene.type_of_gene = "Binary" ->
                ReachableFrom(genes, gene.left_ptr)
                   \cup ReachableFrom(genes, gene.right_ptr)
           [] OTHER -> {})

\* The reference slots <<position, side, index held>> of the operator genes
\* reachable from the last gene.
ReferenceSlots(c) ==
    LET reached == ReachableFrom(c.genes, Len(c.genes) - 1)
    IN  {<<pos, "left", c.genes[pos + 1].left_ptr>> :
            pos \in {q \in reached : ~IsTerminal(c.genes[q + 1])}}
        \cup {<<pos, "right", c.genes[pos + 1].right_ptr>> :
                 pos \in {q \in reached : c.genes[q + 1].type_of_gene = "Binary"}}

IsTree(c) ==
    \A s \in ReferenceSlots(c), t \in ReferenceSlots(c) : s # t => s[3] # t[3]

\* C18: in every chromosome produced by new_x, mutate or cross_with each gene
\* is referenced by at most one parent: no two reference slots reachable
\* from the last gene hold the same index.
C18_Tree == IsTree(c1) /\ IsTree(c2)

(***************************************************************************)
(* Properties of fitness evaluation (SpecEval, SpecSemantics).             *)
(***************************************************************************)
\* C6: after evaluate_fitness_mse the stored fitness_value is a finite
\* number: a non-finite averaged total (an infinity or NaN) is stored as
\* f64::MAX.
C6_FitnessFinite ==
    op = "evaluate_fitness_mse" => (c1.accessed /\ is_finite(c1.fitness_value))

\* The reference semantics, bottom up: the values of the genes at positions
\* 0..n - 1 for one row, each computed from the values of earlier positions.
RECURSIVE ReferenceValues(_, _, _)
ReferenceValues(genes, row, n) ==
    IF n = 0
    THEN << >>
    ELSE LET prev == ReferenceValues(genes, row, n - 1)
             gene == genes[n]
             v == CASE gene.type_of_gene = "Constant" -> gene.arg
                    [] gene.type_of_gene = "Variable" -> row[gene.arg + 1]
                    [] gene.type_of_gene = "Unary" ->
                         Call(gene.ops, prev[gene.left_ptr + 1], 0 - 1)
                    [] OTHER ->
                         Call(gene.ops, prev[gene.left_ptr + 1], prev[gene.right_ptr + 1])
         IN  Append(prev, v)

\* The value of the last gene under the reference semantics.
ReferenceValue(c, row) == ReferenceValues(c.genes, row, Len(c.genes))[Len(c.genes)]

\* The sum of squared errors of the reference values over the rows 1..n.
RECURSIVE ReferenceTotal(_, _, _)
ReferenceTotal(c, vec, n) ==
    IF n = 0
    THEN 0
    ELSE LET diff == FSub(ReferenceValue(c, vec[n]), vec[n][Len(vec[n])])
         IN  FAdd(ReferenceTotal(c, vec, n - 1), FMul(diff, diff))

\* C14: for every row, evaluation returns the value the reference semantics
\* gives the last gene (Constant(k) is k, Variable(i) is row[i], Unary(f, l)
\* is f(value of l, -1), Binary(f, l, r) is f(value of l, value of r)), and
\* the fitness evaluate_fitness_mse stores is the mean squared error of
\* those values.
C14_EvaluationSemantics ==
    /\ \A n \in 1..Len(dataset) :
          evaluate_fitness(c1, dataset[n]) = ReferenceValue(c1, dataset[n])
    /\ op = "evaluate_fitness_mse" =>
          c1.fitness_value =
             Clamp(FDiv(ReferenceTotal(c1, dataset, Len(dataset)), Len(dataset)))

\* C14's case: [Variable(1), Variable(2), Binary(subtract, 0, 1)] has been
\* evaluated on two rows with row[1] = 0 and row[2] = 1: subtract(0, 1) is
\* -1, the squared error against the target 1 is 4 on each row.
C14_Witness ==
    /\ op = "evaluate_fitness_mse"
    /\ Len(dataset) = 2
    /\ c1.genes = <<new_variable(1), new_variable(2), new_binary2(0, 1, "subtract")>>
    /\ c1.fitness_value = 4

(***************************************************************************)
(* Properties of the library functions (SpecFunctions).                    *)
(***************************************************************************)
\* C16: divide(x, 0) returns f64::MAX when x >= 0 and -f64::MAX when x < 0,
\* and divide(x, y) returns x / y when y is not 0.
C16_SafeDivide ==
    call.ops = "divide" =>
       /\ (call.y = 0 /\ FGe(call.x, 0)) => call.result = FMAX
       /\ (call.y = 0 /\ FLt(call.x, 0)) => call.result = 0 - FMAX
       /\ call.y # 0 => call.result = FDiv(call.x, call.y)

\* C16's case: a negative number has been divided by 0.
C16_Witness ==
    /\ call.ops = "divide"
    /\ call.x = 0 - 3
    /\ call.y = 0
    /\ call.result = 0 - FMAX

(***************************************************************************)
(* Properties of the population and the generational loop (Spec).          *)
(***************************************************************************)
\* The fitness evaluate_fitness_mse stores for c as it is now.
CurrentFitness(c) == evaluate_fitness_mse(c, dataset).c.fitness_value

\* C3: no tournament selection reads a member's fitness_value before that
\* member's evaluation task for the current population has completed:
\* whenever mate selects, no task is outstanding and every member carries
\* the fitness of its current genes.
C3_EvaluationBarrier ==
    pc = "mate" =>
       /\ pending = {}
       /\ \A i \in 1..Len(population) :
             /\ population[i].accessed
             /\ population[i].fitness_value = CurrentFitness(population[i])

\* C3's case: in the second generation a tournament has run over three
\* evaluated members with different fitness.
C3_Witness ==
    /\ pc = "mate" /\ g = 1 /\ tourn # NoTourn
    /\ Len(population) = 3
    /\ tourn.f1 # tourn.f2

\* C4: the lowest fitness of the generation mate produces is never above the
\* lowest fitness of the generation it replaced, before and after the new
\* generation is evaluated, and the per-generation best-fitness sequence is
\* non-increasing.
C4_ElitismMonotone ==
    /\ (pc = "mate_evaluate" \/ g > 0) =>
          (~FLt(prev_min, MinFitness(population)) /\ ~is_nan(MinFitness(population)))
    /\ \A i \in 1..Len(fitness_graph) : \A j \in i..Len(fitness_graph) :
          ~FLt(fitness_graph[i].fitness, fitness_graph[j].fitness)

\* C4's case: a run of two generations has ended, the second strictly better
\* than the first.
C4_Witness ==
    /\ pc = "done"
    /\ Len(fitness_graph) = Gens
    /\ fitness_graph[2].fitness < fitness_graph[1].fitness
    /\ MinFitness(population) = fitness_graph[Gens].fitness

\* The lowest position among the members of lowest fitness.
LowestMinPositions(members) ==
    {i \in 1..Len(members) :
        /\ members[i].fitness_value = MinFitness(members)
        /\ \A j \in 1..(i - 1) : members[j].fitness_value # MinFitness(members)}

\* A step that ends Population::evaluate (the parallel loop, then
\* find_best_min): in the loop of gp, or at the end of mate.
EvaluateEnds ==
    \/ pc = "evaluate" /\ pc' = "mate"
    \/ pc = "mate_evaluate" /\ pc' \in {"evaluate", "report"}

C7_TournamentTieFirst ==
    tourn # NoTourn =>
       /\ ~FLt(tourn.f1, population[tourn.winner].fitness_value)
       /\ ~FLt(tourn.f2, population[tourn.winner].fitness_value)
       /\ tourn.f1 = tourn.f2 => tourn.winner = tourn.c1

\* C10: a population of odd size keeps its size: after any number of
\* generations it holds pop_size chromosomes.
C10_OddSizeFixed ==
    pop_size % 2 = 1 => Len(population) = pop_size

\* C10's case: a run with three members has ended after two generations.
C10_Witness ==
    /\ pc = "done" /\ g = Gens
    /\ pop_size = 3
    /\ Len(population) = 3

\* C11: an even population size is rejected before any evolutionary work
\* begins: no run with an even pop_size reproduces, replaces its population
\* or changes the number of chromosomes it holds.
C11_EvenSizeRejected ==
    pop_size % 2 = 0 =>
       /\ new_population = << >>
       /\ Len(population) = pop_size
       /\ pc \notin {"mate_evaluate", "report", "done"}

\* C12: initialization and the driver's mutation use a variable count of
\* columns - 1: every Variable gene has an index in [0, columns - 1), and
\* every input column index in that range is one the generator can produce.
C12_VariableCountColumnsMinusOne ==
    LET columns == Len(dataset[1])
        InRange(c) ==
            \A p \in 1..Len(c.genes) :
               c.genes[p].type_of_gene = "Variable" =>
                  (c.genes[p].arg >= 0 /\ c.genes[p].arg < columns - 1)
    IN  /\ \A i \in 1..Len(population) : InRange(population[i])
        /\ \A i \in 1..Len(new_population) : InRange(new_population[i])
        /\ \A i \in 0..(columns - 2) :
              /\ Gene("Variable", i, 0, 0, "nothing")
                    \in new_random_gene(0, NumVariables(dataset), TRUE)
              /\ Gene("Variable", i, 0, 0, "nothing")
                    \in MutationGenes(0, NumVariables(dataset))

\* C13: the entries pushed to fitness_graph carry the generation indices
\* 0, 1, 2, ... in order, one per completed generation, and a run of Gens
\* generations that reaches its report has exactly the entries 0..Gens - 1.
C13_FitnessSequence ==
    /\ Len(fitness_graph) = g
    /\ \A k \in 1..Len(fitness_graph) : fitness_graph[k].generation = k - 1
    /\ pc \in {"report", "done"} => Len(fitness_graph) = Gens

\* C13's case: a run has ended with one entry per generation.
C13_Witness ==
    /\ pc = "done"
    /\ Len(fitness_graph) = Gens
    /\ fitness_graph[1].generation = 0
    /\ fitness_graph[Gens].generation = Gens - 1

\* The phase of the driver's state machine that a position belongs to: the
\* evaluation mate runs on the population it has installed is the end of
\* Replace.
Phase(p) ==
    CASE p = "evaluate" -> "Evaluate"
      [] p = "mate" -> "Select&Reproduce"
      [] p = "mate_evaluate" -> "Replace"
      [] p \in {"report", "done"} -> "Report"
      [] OTHER -> "Fatal"

\* C17: the driver moves Evaluate -> Select&Reproduce -> Replace, back to
\* Evaluate while generations remain, and to Report after exactly Gens
\* iterations; it makes no other move and enters no other state.
C17_DriverStateMachine ==
    [][Phase(pc') # Phase(pc) =>
         \/ Phase(pc) = "Evaluate" /\ Phase(pc') = "Select&Reproduce"
         \/ Phase(pc) = "Select&Reproduce" /\ Phase(pc') = "Replace"
         \/ Phase(pc) = "Replace" /\ Phase(pc') = "Evaluate" /\ g' < Gens
         \/ Phase(pc) = "Replace" /\ Phase(pc') = "Report" /\ g' = Gens]_vars

\* `for i in &mut population { i.evaluate_fitness_mse(&dataset) }`: the
\* members 1..n evaluated one after the other.
RECURSIVE EvaluateSequentially(_, _, _)
EvaluateSequentially(members, vec, n) ==
    IF n = 0
    THEN members
    ELSE [EvaluateSequentially(members, vec, n - 1) EXCEPT
             ![n] = evaluate_fitness_mse(members[n], vec).c]

\* A step of one evaluation task of the parallel loop.
TaskStep ==
    /\ pc \in {"evaluate", "mate_evaluate"}
    /\ pc' = pc
    /\ pending' # pending

\* C19: an evaluation task writes only the fitness_value and the accessed
\* marker of its own chromosome: the dataset, every gene sequence and every
\* other member are unchanged, and what the task stores is what evaluating
\* the members one after the other stores for it; so when the tasks have
\* joined, in whatever order they ran, the population is the sequentially
\* evaluated one.
C19_TaskIsolation ==
    [][/\ TaskStep =>
            \E i \in pending :
               /\ pending' = pending \ {i}
               /\ dataset' = dataset
               /\ Len(population') = Len(population)
               /\ \A j \in 1..Len(population) :
                     /\ population'[j].genes = population[j].genes
                     /\ j # i => population'[j] = population[j]
               /\ population'[i] =
                     EvaluateSequentially(population, dataset, Len(population))[i]
       /\ (pc' \in {"evaluate", "mate_evaluate"} /\ pending' = {}) =>
             population' = EvaluateSequentially(population', dataset', Len(population'))]_vars

\* C19's case: of three tasks of the first generation the second and the
\* third have completed before the first.
C19_Witness ==
    /\ pc = "evaluate" /\ g = 0
    /\ Len(population) = 3
    /\ pending = {1}
    /\ ~population[1].accessed
    /\ population[2].accessed /\ population[3].accessed
    /\ population[2].fitness_value # population[3].fitness_value

\* C20: whenever a chromosome's accessed marker is true, its fitness_value
\* is the fitness of its current genes: it was evaluated after its last
\* clone, crossover or mutation.
C20_MarkerSound ==
    /\ \A i \in 1..Len(population) :
          population[i].accessed =>
             population[i].fitness_value = CurrentFitness(population[i])
    /\ \A i \in 1..Len(new_population) :
          new_population[i].accessed =>
             new_population[i].fitness_value = CurrentFitness(new_population[i])

\* C21: in every generation every member of the population, the elite pushed
\* from the cached best included, has exactly num_genes genes, so that no
\* evaluation runs on an empty gene sequence, whatever the fitness values
\* are (also when every member's fitness is f64::MAX).
C21_EveryMemberHasGenes ==
    /\ \A i \in 1..Len(population) : Len(population[i].genes) = NumGenes
    /\ \A i \in 1..Len(new_population) : Len(new_population[i].genes) = NumGenes
    /\ pc # "panic"

====
